---- MODULE Spec2Model ----
(***************************************************************************)
(* climbing-tracker: the branch-data ingestion pipeline of src/main.go.    *)
(*                                                                         *)
(* src/main.go holds two variants of the program.  The persisted variant   *)
(* (lines 15-365) serves /branches/store, /branches, /attendance/store and *)
(* /attendance from two database tables.  The in-memory variant (lines     *)
(* 381-675) serves /branches from the map App.data, /branches/store and    *)
(* /test/attendance.                                                       *)
(*                                                                         *)
(* A request is a record in req[w]; w is the goroutine the HTTP server     *)
(* runs the handler on.  The server runs every request on a goroutine of   *)
(* its own, so the handlers of two requests interleave.  A handler takes   *)
(* one step for each statement that touches what the goroutines share: a   *)
(* database statement, or an access to App.expected.  What a handler does  *)
(* between two such statements (fetching, decoding, formatting, scanning   *)
(* the rows of a result) touches nothing shared and belongs to the step of *)
(* the statement it leads to or follows.                                   *)
(***************************************************************************)
EXTENDS Integers, Sequences, FiniteSets, TLC

(* ---------------------------------------------------------------- bounds *)

\* Requests started in one run.
MaxRequests == 2

\* Faults injected in one run: upstream failures and failed statements.
MaxFaults == 1

\* The hour of the first slot of an upstream trend line.
FirstHour == 6

\* The slots of an upstream trend line in the runs where nothing fails.
PayloadSlots == 2

\* The slots of an upstream trend line in the runs where faults are injected.
FaultySlots == 1

(* ------------------------------------------------------ program constants *)

westendName == "westend"
miltonName == "milton"
newsteadName == "newstead"

StatusOK == 200
StatusInternalServerError == 500

\* data := make([]expectedAttendance, 16)
DefaultSlots == 16

\* data.LastUpdated.Add(10*time.Hour)
OffsetHours == 10

\* The in-memory variant formats data.LastUpdated unshifted.
NoOffset == 0

Nil == "nil"

(* ------------------------------------------------------- branch registry *)

getBranchIds ==
    (westendName :> "D969F1B2-0C9F-49A9-B2AC-D7775642F298")
    @@ (miltonName :> "690326F9-98CE-4249-BD91-53A0676A137B")
    @@ (newsteadName :> "A3010228-DFC6-4317-86C0-3839FFDF3FD0")

getBranchSQLIds_dup ==
    (westendName :> 0) @@ (miltonName :> 0) @@ (newsteadName :> 2)

getBranchSQLIds ==
    (westendName :> 0) @@ (miltonName :> 1) @@ (newsteadName :> 2)

getBranchSQLNames_swapped ==
    (0 :> westendName) @@ (1 :> newsteadName) @@ (2 :> miltonName)

getBranchSQLNames ==
    (0 :> westendName) @@ (1 :> miltonName) @@ (2 :> newsteadName)

Branches == DOMAIN getBranchIds

Range(s) == {s[i] : i \in DOMAIN s}

\* `for name, id := range a.getBranchIds()`: Go leaves the order of a map
\* range unspecified, so after the keys in visited the loop may go on with
\* any key it has not visited.
RangeNext(visited) == Branches \ Range(visited)

(* ------------------------------------------- formatting and its inverse  *)

\* strconv.Itoa: the decimal digits of n, most significant first.
RECURSIVE Itoa(_)
Itoa(n) == IF n < 10 THEN <<n>> ELSE Append(Itoa(n \div 10), n % 10)

\* The database reads an integer literal back.
RECURSIVE ParseInt(_)
ParseInt(s) ==
    IF Len(s) = 0 THEN 0
    ELSE 10 * ParseInt(SubSeq(s, 1, Len(s) - 1)) + s[Len(s)]

\* strconv.FormatFloat(x, 'f', -1, 64).  A percentage is kept in tenths
\* (425 is 42.5); the shortest decimal has no fraction when it is whole.
FormatFloat(x) ==
    [int |-> Itoa(x \div 10),
     frac |-> IF x % 10 = 0 THEN <<>> ELSE <<x % 10>>]

ParseDecimal(s) ==
    10 * ParseInt(s.int) + (IF Len(s.frac) = 0 THEN 0 ELSE s.frac[1])

\* time.Time.Add(d).Format("2006-01-02 15:04:05").  A time is kept in whole
\* hours since the zero time; the text has a date part and a time part.
FormatTime(t, offset) ==
    [date |-> Itoa((t + offset) \div 24), clock |-> Itoa((t + offset) % 24)]

ParseTime(s) == 24 * ParseInt(s.date) + ParseInt(s.clock)

(* ---------------------------------------------------------------- upstream *)

OccStatus(v) == IF v % 2 = 1 THEN "Quiet" ELSE "Busy"

\* The occupancy document of branch b in data set v.  Upstream publishes a
\* new data set for every cycle.
OccupancyJSON(v, b) ==
    [LastUpdated |-> 200 + v,
     Name |-> b,
     Status |-> OccStatus(v),
     CurrentPercentage |->
        IF v % 2 = 1 THEN 425 + 10 * getBranchSQLIds[b] + (v \div 2)
        ELSE 800 - 100 * getBranchSQLIds[b] - (v \div 2)]

\* http.Get: a nil response on a network error, otherwise the body.
HttpGet(kind, doc) ==
    IF kind = "neterr" THEN [nil |-> TRUE, valid |-> FALSE, doc |-> doc]
    ELSE [nil |-> FALSE, valid |-> kind = "ok", doc |-> doc]

ZeroBranchData ==
    [LastUpdated |-> 0, Name |-> "", Status |-> "", CurrentPercentage |-> 0]

ZeroExpectedAttendance == [Hour |-> 0, Percentage |-> 0]

\* json.NewDecoder(r.Body).Decode(&data) into a branchData: a body that is
\* not JSON leaves data as it was; the error Decode returns is dropped.
DecodeBranchData(data, r) ==
    IF r.valid
    THEN [LastUpdated |-> r.doc.LastUpdated,
          Name |-> r.doc.Name,
          Status |-> r.doc.Status,
          CurrentPercentage |-> r.doc.CurrentPercentage]
    ELSE data

\* Decode into a []expectedAttendance: a valid array replaces the slice.
DecodeExpectedAttendance(data, r) ==
    IF r.valid
    THEN [i \in DOMAIN r.doc |->
            [Hour |-> r.doc[i].hour, Percentage |-> r.doc[i].percantage]]
    ELSE data

(* --------------------------------------------------------------- database *)

\* INSERT INTO branch_data(...) VALUES (...), as the text fmt.Sprintf makes.
BranchDataQuery(name, data, offset) ==
    [branchId |-> Itoa(getBranchSQLIds[name]),
     lastUpdated |-> FormatTime(data.LastUpdated, offset),
     name |-> data.Name,
     status |-> data.Status,
     pct |-> FormatFloat(data.CurrentPercentage)]

\* INSERT INTO expected_attendance(...) VALUES (...).
AttendanceQuery(name, slot) ==
    [branchId |-> Itoa(getBranchSQLIds[name]),
     hour |-> Itoa(slot.Hour),
     pct |-> FormatFloat(slot.Percentage)]

\* The row the database stores for an insert: the literals read back.  The
\* surrogate id is left out: rows stay in id order, and readers drop the id.
BranchDataRow(q) ==
    [branchId |-> ParseInt(q.branchId),
     lastUpdated |-> ParseTime(q.lastUpdated),
     name |-> q.name,
     status |-> q.status,
     pct |-> ParseDecimal(q.pct)]

AttendanceRow(q) ==
    [branchId |-> ParseInt(q.branchId),
     hour |-> ParseInt(q.hour),
     pct |-> ParseDecimal(q.pct)]

InsertRow_drop(table, row) == table

\* A successful INSERT adds the row after the rows the table holds.
InsertRow(table, row) == Append(table, row)

DeleteAll_keep(table) == table

\* DELETE FROM <table>, with no WHERE clause.
DeleteAll(table) == <<>>

\* The rows a reader sees that carry branch id sid, in table order.
RECURSIVE RowsOf(_, _)
RowsOf(table, sid) ==
    IF Len(table) = 0 THEN <<>>
    ELSE IF table[1].branchId = sid
         THEN <<table[1]>> \o RowsOf(Tail(table), sid)
         ELSE RowsOf(Tail(table), sid)

(* ------------------------------------------------------------------ state *)

VARIABLES
    branch_data,          \* table `branch-data`.`branch_data`, in id order
    expected_attendance,  \* table `branch-data`.`expected_attendance`
    data,                 \* App.data of the in-memory variant
    expected,             \* App.expected of the in-memory variant
    req,                  \* req[w]: the request goroutine w is serving
    nreq,                 \* requests started
    faults,               \* faults injected
    scenario              \* what upstream and the clients send in this run

vars == <<branch_data, expected_attendance, data, expected, req, nreq, faults,
          scenario>>

\* The goroutines that serve requests: the server starts one for every
\* request, so two requests can be in flight together.
Workers == {1, 2}

NotFetched == [b \in Branches |-> "none"]

\* The rows each DELETE of a request removed (the result the handler drops).
NoneRemoved == [expected_attendance |-> 0, branch_data |-> 0]

\* cleanBranchMap / initExpected: every branch mapped to an empty slice.
EmptyMap == [b \in Branches |-> <<>>]

IdleReq ==
    [kind |-> "none", pc |-> "idle", order |-> <<>>, up |-> NotFetched,
     ver |-> 0, err |-> Nil, status |-> 0, panicked |-> FALSE, logged |-> {},
     removed |-> NoneRemoved, body |-> EmptyMap, writes |-> <<>>,
     next |-> 0, alone |-> TRUE]

\* What upstream and the database do in a run.  Requests arrive and
\* overlap alike in every scenario.
\*   "long":   trend lines have PayloadSlots slots; nothing fails.
\*   "short":  trend lines have FaultySlots slots; fetches, statements and
\*             scans can fail, and an occupancy body can be malformed.
\*   "broken": as "short", but trend lines are empty arrays, and a
\*             trend-line body can be malformed: Decode then leaves the 16
\*             zero slots, which are inserted.
Scenarios == {"long", "short", "broken"}

\* newApp: the tables are empty, App.data is the clean map, App.expected is
\* not yet made.
Init ==
    /\ branch_data = <<>>
    /\ expected_attendance = <<>>
    /\ data = EmptyMap
    /\ expected = <<>>
    /\ req = [w \in Workers |-> IdleReq]
    /\ nreq = 0
    /\ faults = 0
    /\ scenario \in Scenarios

(* --------------------------------------------------------------- helpers *)

\* The slots upstream publishes for one branch in this run.
SlotsPublished ==
    CASE scenario = "long" -> PayloadSlots
      [] scenario = "short" -> FaultySlots
      [] OTHER -> 0

\* The trend-line document of branch b in data set v: SlotsPublished objects
\* with the keys the struct tags of expectedAttendance name.
AttendanceJSON(v, b) ==
    [i \in 1..SlotsPublished |->
        [hour |-> FirstHour + i - 1,
         percantage |-> ((37 * v + 11 * getBranchSQLIds[b] + 7 * i) % 101) * 10
                            + ((v + i) % 2) * 5]]

\* The rows the inner loop of one attendance iteration inserts, in order:
\* data is made with 16 zero slots, Decode replaces it when the body is
\* valid, and every slot becomes one INSERT.
AttendanceInserts(v, b, up) ==
    LET r == HttpGet(up, AttendanceJSON(v, b))
        decoded == DecodeExpectedAttendance(
                       [i \in 1..DefaultSlots |-> ZeroExpectedAttendance], r)
    IN [i \in DOMAIN decoded |-> AttendanceRow(AttendanceQuery(b, decoded[i]))]

Free(w) == req[w].pc \in {"idle", "done"}

\* A request is given a goroutine of its own, whatever the others are
\* doing.  Which goroutine is of no consequence, so the model takes the
\* first one that serves no request.
Accepts(w) ==
    /\ Free(w)
    /\ \A v \in Workers : v < w => ~Free(v)
    /\ nreq < MaxRequests

\* A fault can be injected: the scenario has faults, and the budget is not
\* spent once k more faults are counted.
CanFailAfter(k) == scenario # "long" /\ faults + k < MaxFaults

\* What a fetch can meet: a good body, or, while the fault budget lasts, a
\* network error or a body that is not JSON.
FetchResults ==
    IF CanFailAfter(0) THEN {"ok", "neterr", "malformed"} ELSE {"ok"}

\* What the fetch of a trend line can meet.
TrendFetchResults ==
    IF scenario = "broken" THEN FetchResults ELSE FetchResults \ {"malformed"}

\* The outcomes a database statement can have: it may fail while the fault
\* budget lasts.
DbResultsAfter(k) == IF CanFailAfter(k) THEN {TRUE, FALSE} ELSE {TRUE}

DbResults == DbResultsAfter(0)

FaultCount(bad) == IF bad = {} THEN 0 ELSE 1

\* The request goroutine w starts to serve.  alone records that no other
\* request was in flight when it arrived.
NewRequest(w, kind, pc) ==
    [kind |-> kind, pc |-> pc, order |-> <<>>, up |-> NotFetched,
     ver |-> nreq + 1, err |-> Nil, status |-> 0, panicked |-> FALSE,
     logged |-> {}, removed |-> NoneRemoved, body |-> EmptyMap,
     writes |-> <<>>, next |-> 0,
     alone |-> \A v \in Workers \ {w} : Free(v)]

\* gin.Default() installs Recovery: a panic in a handler ends the handler
\* and answers 500.
Recovered(r, b, logs) ==
    [r EXCEPT !.order = Append(r.order, b), !.up[b] = "neterr",
              !.pc = "done", !.panicked = TRUE, !.logged = r.logged \cup logs,
              !.status = StatusInternalServerError,
              !.writes = <<StatusInternalServerError>>]

\* if err != nil { 500 } else { 200 }, on the handler's own err.
Respond(r) ==
    LET code == IF r.err # Nil THEN StatusInternalServerError ELSE StatusOK
    IN [r EXCEPT !.pc = "done", !.status = code, !.writes = <<code>>]

\* Where the handler goes after the iteration of the branches in order.
AfterIteration(order) == IF RangeNext(order) = {} THEN "respond" ELSE "loop"

\* The end of a loop iteration: the err of the iteration goes out of scope.
NextBranch(r, b, up, logs) ==
    [r EXCEPT !.order = Append(r.order, b), !.up[b] = up,
              !.logged = r.logged \cup logs,
              !.pc = AfterIteration(Append(r.order, b))]

Logged(what, b) == [what |-> what, branch |-> b]

(* ------------------------------- persisted variant: GET /branches/store *)

\* One iteration of the occupancy loop for branch b, shared by the two
\* variants (they differ in the offset added to LastUpdated): fetch, decode,
\* insert.  A network error leaves r nil, and r.Body panics.
OccupancyIteration(w, b, up, offset, ok) ==
    LET r == HttpGet(up, OccupancyJSON(req[w].ver, b))
        decoded == DecodeBranchData(ZeroBranchData, r)
        qry == BranchDataQuery(b, decoded, offset)
    IN IF r.nil
       THEN /\ req' = [req EXCEPT ![w] = Recovered(@, b, {Logged("fetch", b)})]
            /\ branch_data' = branch_data
            /\ faults' = faults + 1
       ELSE /\ branch_data' = IF ok THEN InsertRow(branch_data, BranchDataRow(qry))
                              ELSE branch_data
            /\ faults' = faults + (IF up = "ok" THEN 0 ELSE 1)
                                 + (IF ok THEN 0 ELSE 1)
            /\ req' = [req EXCEPT ![w] =
                  NextBranch(@, b, up, IF ok THEN {} ELSE {Logged("insert", b)})]

\* The request arrives: `var err error`, and the range over the registry
\* starts.  Upstream's condition during the cycle is fixed here.
BranchStoreStart(w) ==
    /\ Accepts(w)
    /\ req' = [req EXCEPT ![w] = NewRequest(w, "branchStore", "loop")]
    /\ nreq' = nreq + 1
    /\ UNCHANGED <<scenario, branch_data, expected_attendance, data, expected, faults>>

BranchStoreBranch(w) ==
    /\ req[w].kind = "branchStore"
    /\ req[w].pc = "loop"
    /\ \E b \in RangeNext(req[w].order), up \in FetchResults :
       \E ok \in IF up = "ok" THEN DbResults ELSE DbResultsAfter(1) :
          OccupancyIteration(w, b, up, OffsetHours, ok)
    /\ UNCHANGED <<scenario, expected_attendance, data, expected, nreq>>

BranchStoreRespond(w) ==
    /\ req[w].kind = "branchStore"
    /\ req[w].pc = "respond"
    /\ req' = [req EXCEPT ![w] = Respond(@)]
    /\ UNCHANGED <<scenario, branch_data, expected_attendance, data, expected, nreq, faults>>

(* ----------------------------- persisted variant: GET /attendance/store *)

\* The request arrives and deletes expected_attendance; err takes the
\* statement's result.
AttendanceStoreDeleteAttendance(w) ==
    /\ Accepts(w)
    /\ \E ok \in DbResults :
          /\ req' = [req EXCEPT ![w] =
                [NewRequest(w, "attendanceStore", "delete2")
                    EXCEPT !.err = IF ok THEN Nil ELSE "delete failed",
                           !.removed.expected_attendance =
                                IF ok THEN Len(expected_attendance) ELSE 0,
                           !.logged = IF ok THEN {}
                                      ELSE {Logged("delete expected_attendance", "")}]]
          /\ expected_attendance' = IF ok THEN DeleteAll(expected_attendance)
                                    ELSE expected_attendance
          /\ faults' = faults + (IF ok THEN 0 ELSE 1)
    /\ nreq' = nreq + 1
    /\ UNCHANGED <<scenario, branch_data, data, expected>>

\* The second delete overwrites err with its own result.
AttendanceStoreDeleteBranchData(w) ==
    /\ req[w].kind = "attendanceStore"
    /\ req[w].pc = "delete2"
    /\ \E ok \in DbResults :
          /\ req' = [req EXCEPT ![w].pc = "loop",
                                ![w].err = IF ok THEN Nil ELSE "delete failed",
                                ![w].removed.branch_data =
                                    IF ok THEN Len(branch_data) ELSE 0,
                                ![w].logged = IF ok THEN @
                                              ELSE @ \cup {Logged("delete branch_data", "")}]
          /\ branch_data' = IF ok THEN DeleteAll(branch_data) ELSE branch_data
          /\ faults' = IF ok THEN faults ELSE faults + 1
    /\ UNCHANGED <<scenario, expected_attendance, data, expected, nreq>>

\* The INSERT of slot i of the iteration for branch b the attendance cycle
\* of w is on, rq being the requests as the iteration has them so far; a
\* failed statement is logged and the inner loop goes on.  After the last
\* slot the iteration ends.
InsertSlot(rq, w, b, up, i, ok) ==
    LET rows == AttendanceInserts(rq[w].ver, b, up)
    IN /\ expected_attendance' =
             IF ok THEN InsertRow(expected_attendance, rows[i])
             ELSE expected_attendance
       /\ req' = [rq EXCEPT
             ![w].logged = IF ok THEN @ ELSE @ \cup {Logged("insert", b)},
             ![w].next = IF i < Len(rows) THEN i + 1 ELSE 0,
             ![w].pc = IF i < Len(rows) THEN "insert"
                       ELSE AfterIteration(rq[w].order)]

\* An iteration of the attendance loop starts: fetch, decode, and the INSERT
\* of the first slot; with an empty array decoded the inner loop has no
\* pass.  A network error leaves r nil, and r.Body panics.
AttendanceStoreBranch(w) ==
    /\ req[w].kind = "attendanceStore"
    /\ req[w].pc = "loop"
    /\ \E b \in RangeNext(req[w].order), up \in TrendFetchResults :
          IF HttpGet(up, AttendanceJSON(req[w].ver, b)).nil
          THEN /\ req' = [req EXCEPT ![w] = Recovered(@, b, {Logged("fetch", b)})]
               /\ expected_attendance' = expected_attendance
               /\ faults' = faults + 1
          ELSE IF Len(AttendanceInserts(req[w].ver, b, up)) = 0
          THEN /\ req' = [req EXCEPT ![w].order = Append(@, b), ![w].up[b] = up,
                                     ![w].pc = AfterIteration(Append(req[w].order, b))]
               /\ expected_attendance' = expected_attendance
               /\ faults' = faults
          ELSE \E ok \in IF up = "ok" THEN DbResults ELSE DbResultsAfter(1) :
               /\ InsertSlot([req EXCEPT ![w].order = Append(@, b), ![w].up[b] = up],
                             w, b, up, 1, ok)
               /\ faults' = faults + (IF up = "ok" THEN 0 ELSE 1)
                                   + (IF ok THEN 0 ELSE 1)
    /\ UNCHANGED <<scenario, branch_data, data, expected, nreq>>

\* The INSERT of a later slot of the iteration.
AttendanceStoreInsert(w) ==
    /\ req[w].kind = "attendanceStore"
    /\ req[w].pc = "insert"
    /\ \E ok \in DbResults :
          /\ InsertSlot(req, w, req[w].order[Len(req[w].order)],
                        req[w].up[req[w].order[Len(req[w].order)]],
                        req[w].next, ok)
          /\ faults' = faults + (IF ok THEN 0 ELSE 1)
    /\ UNCHANGED <<scenario, branch_data, data, expected, nreq>>

AttendanceStoreRespond(w) ==
    /\ req[w].kind = "attendanceStore"
    /\ req[w].pc = "respond"
    /\ req' = [req EXCEPT ![w] = Respond(@)]
    /\ UNCHANGED <<scenario, branch_data, expected_attendance, data, expected, nreq, faults>>

(* -------------------------------------------- persisted variant: readers *)

ToBranchData(row) ==
    [LastUpdated |-> row.lastUpdated, Name |-> row.name, Status |-> row.status,
     CurrentPercentage |-> row.pct]

ToExpectedAttendance(row) == [Hour |-> row.hour, Percentage |-> row.pct]

\* The columns of the two tables, in the order Scan is given destinations:
\* id, branch_id, last_updated, name, status, current_percentage and
\* id, branch_id, hour, percentage.
BranchDataColumns == 1 .. 6

AttendanceColumns == 1 .. 4

\* rows.Scan converts the columns in order and returns at the first one it
\* cannot convert: the destinations before column col are assigned, the
\* others keep the zero values of their declarations.  col = 0 is a Scan
\* that succeeds.  ScanBranchId is what branchId holds after the Scan,
\* ScanBranchData what bd holds, ScanExpectedAttendance what ea holds.
ScanBranchId(row, col) == IF col = 0 \/ 2 < col THEN row.branchId ELSE 0

ScanBranchData(row, col) ==
    IF col = 0 THEN ToBranchData(row)
    ELSE [LastUpdated |-> IF 3 < col THEN row.lastUpdated
                          ELSE ZeroBranchData.LastUpdated,
          Name |-> IF 4 < col THEN row.name ELSE ZeroBranchData.Name,
          Status |-> IF 5 < col THEN row.status ELSE ZeroBranchData.Status,
          CurrentPercentage |-> IF 6 < col THEN row.pct
                                ELSE ZeroBranchData.CurrentPercentage]

ScanExpectedAttendance(row, col) ==
    IF col = 0 THEN ToExpectedAttendance(row)
    ELSE [Hour |-> IF 3 < col THEN row.hour ELSE ZeroExpectedAttendance.Hour,
          Percentage |-> IF 4 < col THEN row.pct
                         ELSE ZeroExpectedAttendance.Percentage]

\* The map data after the first n iterations of the scan loop of
\* getBranchData, acc being the map before the loop: whether or not the
\* Scan of a row failed (the rows in bad fail, at column col), what the
\* destinations hold is appended to the slice of the name idMap gives
\* branchId.
RECURSIVE BranchDataLoop(_, _, _, _, _)
BranchDataLoop(rows, acc, n, bad, col) ==
    IF n = 0 THEN acc
    ELSE LET c == IF n \in bad THEN col ELSE 0
         IN [BranchDataLoop(rows, acc, n - 1, bad, col)
                EXCEPT ![getBranchSQLNames[ScanBranchId(rows[n], c)]] =
                           Append(@, ScanBranchData(rows[n], c))]

RECURSIVE AttendanceLoop(_, _, _, _, _)
AttendanceLoop(rows, acc, n, bad, col) ==
    IF n = 0 THEN acc
    ELSE LET c == IF n \in bad THEN col ELSE 0
         IN [AttendanceLoop(rows, acc, n - 1, bad, col)
                EXCEPT ![getBranchSQLNames[ScanBranchId(rows[n], c)]] =
                           Append(@, ScanExpectedAttendance(rows[n], c))]

\* The scan loop when every Scan succeeds.
GroupBranchData(rows, acc) == BranchDataLoop(rows, acc, Len(rows), {}, 0)

GroupExpectedAttendance(rows, acc) == AttendanceLoop(rows, acc, Len(rows), {}, 0)

NoScanFault == [bad |-> {}, col |-> 0]

\* How the Scans of an n-row result over the columns cols can go: all
\* succeed, or, while the fault budget lasts, the first row has a last
\* column that cannot be converted, or no row can be scanned at all (every
\* Scan returns before it assigns a destination).
ScanFaults(n, cols) ==
    IF CanFailAfter(0) /\ n > 0
    THEN {NoScanFault,
          [bad |-> {1}, col |-> CHOOSE c \in cols : \A d \in cols : d <= c],
          [bad |-> 1 .. n, col |-> 1]}
    ELSE {NoScanFault}

\* The status codes the reader hands to context.IndentedJSON over an n-row
\* result, in order: a 500 in the iteration of each row whose Scan failed
\* (the loop goes on: there is no return after it), then the 200 after the
\* loop.
ScanWrites(n, bad) ==
    [i \in 1 .. Cardinality(bad \cap (1 .. n)) |-> StatusInternalServerError]
        \o <<StatusOK>>

\* A reader whose SELECT fails holds nil rows, and rows.Next() panics;
\* Recovery writes the 500.  Otherwise the response carries the status of
\* the first write (the header is sent with it; later codes cannot replace
\* it), and body is the map given to the last write.
ReadRequest(w, kind, ok, body, writes) ==
    LET r == NewRequest(w, kind, "done")
    IN IF ok THEN [r EXCEPT !.status = writes[1], !.body = body,
                            !.writes = writes]
       ELSE [r EXCEPT !.panicked = TRUE, !.logged = {Logged("select", "")},
                      !.status = StatusInternalServerError,
                      !.writes = <<StatusInternalServerError>>]

getBranchData(w) ==
    /\ Accepts(w)
    /\ \E ok \in DbResults :
       \E f \in ScanFaults(Len(branch_data), BranchDataColumns) :
          /\ ~ok => f = NoScanFault
          /\ req' = [req EXCEPT ![w] =
                ReadRequest(w, "getBranchData", ok,
                            BranchDataLoop(branch_data, EmptyMap, Len(branch_data), f.bad, f.col),
                            ScanWrites(Len(branch_data), f.bad))]
          /\ faults' = faults + (IF ok THEN FaultCount(f.bad) ELSE 1)
    /\ nreq' = nreq + 1
    /\ UNCHANGED <<scenario, branch_data, expected_attendance, data, expected>>

getExpectedAttendance(w) ==
    /\ Accepts(w)
    /\ \E ok \in DbResults :
       \E f \in ScanFaults(Len(expected_attendance), AttendanceColumns) :
          /\ ~ok => f = NoScanFault
          /\ req' = [req EXCEPT ![w] =
                ReadRequest(w, "getExpectedAttendance", ok,
                            AttendanceLoop(expected_attendance, EmptyMap,
                                           Len(expected_attendance), f.bad, f.col),
                            ScanWrites(Len(expected_attendance), f.bad))]
          /\ faults' = faults + (IF ok THEN FaultCount(f.bad) ELSE 1)
    /\ nreq' = nreq + 1
    /\ UNCHANGED <<scenario, branch_data, expected_attendance, data, expected>>

(* ---------------------------------------------------------- specification *)

Persisted(w) ==
    \/ BranchStoreStart(w)
    \/ BranchStoreBranch(w)
    \/ BranchStoreRespond(w)
    \/ AttendanceStoreDeleteAttendance(w)
    \/ AttendanceStoreDeleteBranchData(w)
    \/ AttendanceStoreBranch(w)
    \/ AttendanceStoreInsert(w)
    \/ AttendanceStoreRespond(w)
    \/ getBranchData(w)
    \/ getExpectedAttendance(w)

\* The persisted variant: the statements of the requests in flight
\* interleave.
Next == \E w \in Workers : Persisted(w)

Spec == Init /\ [][Next]_vars

(* --------------------------------- in-memory variant: GET /branches/store *)

\* The handler of the in-memory variant: the same loop, LastUpdated
\* unshifted.  It inserts into the table and leaves App.data alone.
MemBranchStoreStart(w) ==
    /\ Accepts(w)
    /\ req' = [req EXCEPT ![w] = NewRequest(w, "memBranchStore", "loop")]
    /\ nreq' = nreq + 1
    /\ UNCHANGED <<scenario, branch_data, expected_attendance, data, expected, faults>>

MemBranchStoreBranch(w) ==
    /\ req[w].kind = "memBranchStore"
    /\ req[w].pc = "loop"
    /\ \E b \in RangeNext(req[w].order), up \in FetchResults :
       \E ok \in IF up = "ok" THEN DbResults ELSE DbResultsAfter(1) :
          OccupancyIteration(w, b, up, NoOffset, ok)
    /\ UNCHANGED <<scenario, expected_attendance, data, expected, nreq>>

MemBranchStoreRespond(w) ==
    /\ req[w].kind = "memBranchStore"
    /\ req[w].pc = "respond"
    /\ req' = [req EXCEPT ![w] = Respond(@)]
    /\ UNCHANGED <<scenario, branch_data, expected_attendance, data, expected, nreq, faults>>

(* -------------------------------- in-memory variant: GET /test/attendance *)

\* testAttendance calls retrieveExpectedAttendance, which starts with
\* initExpected: a.expected is set to a new map, whatever request filled
\* or is filling the old one.
TestAttendanceStart(w) ==
    /\ Accepts(w)
    /\ req' = [req EXCEPT ![w] = NewRequest(w, "testAttendance", "loop")]
    /\ expected' = EmptyMap
    /\ nreq' = nreq + 1
    /\ UNCHANGED <<scenario, branch_data, expected_attendance, data, faults>>

\* One iteration of retrieveExpectedAttendance: a.expected[name] = data, on
\* the map a.expected holds at that moment.
TestAttendanceBranch(w) ==
    /\ req[w].kind = "testAttendance"
    /\ req[w].pc = "loop"
    /\ \E b \in RangeNext(req[w].order), up \in TrendFetchResults :
       LET r == HttpGet(up, AttendanceJSON(req[w].ver, b))
           decoded == DecodeExpectedAttendance(
                          [i \in 1..DefaultSlots |-> ZeroExpectedAttendance], r)
       IN IF r.nil
          THEN /\ req' = [req EXCEPT ![w] = Recovered(@, b, {Logged("fetch", b)})]
               /\ expected' = expected
               /\ faults' = faults + 1
          ELSE /\ expected' = [expected EXCEPT ![b] = decoded]
               /\ faults' = faults + (IF up = "ok" THEN 0 ELSE 1)
               /\ req' = [req EXCEPT ![w] = NextBranch(@, b, up, {})]
    /\ UNCHANGED <<scenario, branch_data, expected_attendance, data, nreq>>

\* a.expected is written and read with no lock.  When a goroutine is about
\* to write the map while another is about to write it, or to range over
\* it for the response, the two accesses can coincide; the Go runtime then
\* may stop the process with a fatal error (concurrent map writes, or
\* concurrent map iteration and map write), which no handler recovers from.
\* When it does not, the accesses take effect one after the other.
ConcurrentMapWrites(w) ==
    /\ req[w].kind = "testAttendance"
    /\ req[w].pc = "loop"
    /\ \E v \in Workers \ {w} :
          /\ req[v].kind = "testAttendance"
          /\ req[v].pc \in {"loop", "respond"}
    /\ req' = [v \in Workers |-> [req[v] EXCEPT !.pc = "fatal"]]
    /\ UNCHANGED <<scenario, branch_data, expected_attendance, data, expected, nreq, faults>>

\* context.IndentedJSON(http.StatusOK, a.expected)
TestAttendanceRespond(w) ==
    /\ req[w].kind = "testAttendance"
    /\ req[w].pc = "respond"
    /\ req' = [req EXCEPT ![w].pc = "done", ![w].status = StatusOK,
                          ![w].body = expected, ![w].writes = <<StatusOK>>]
    /\ UNCHANGED <<scenario, branch_data, expected_attendance, data, expected, nreq, faults>>

(* -------------------------------------- in-memory variant: GET /branches *)

\* context.IndentedJSON(http.StatusOK, a.data)
getAllBranches(w) ==
    /\ Accepts(w)
    /\ req' = [req EXCEPT ![w] =
          [NewRequest(w, "getAllBranches", "done")
              EXCEPT !.status = StatusOK, !.body = data,
                     !.writes = <<StatusOK>>]]
    /\ nreq' = nreq + 1
    /\ UNCHANGED <<scenario, branch_data, expected_attendance, data, expected, faults>>

InMemory(w) ==
    \/ MemBranchStoreStart(w)
    \/ MemBranchStoreBranch(w)
    \/ MemBranchStoreRespond(w)
    \/ TestAttendanceStart(w)
    \/ TestAttendanceBranch(w)
    \/ ConcurrentMapWrites(w)
    \/ TestAttendanceRespond(w)
    \/ getAllBranches(w)

\* The in-memory variant: the steps of the requests in flight interleave.
NextMem == \E w \in Workers : InMemory(w)

SpecMem == Init /\ [][NextMem]_vars

(* ------------------------------------------ concurrent attendance cycles *)

\* The persisted variant with two goroutines, each serving GET
\* /attendance/store: the statements of the two handlers interleave.
NextConc ==
    \E w \in Workers :
        \/ AttendanceStoreDeleteAttendance(w)
        \/ AttendanceStoreDeleteBranchData(w)
        \/ AttendanceStoreBranch(w)
        \/ AttendanceStoreInsert(w)
        \/ AttendanceStoreRespond(w)

\* The same start as Init.
InitConc ==
    /\ branch_data = <<>>
    /\ expected_attendance = <<>>
    /\ data = EmptyMap
    /\ expected = <<>>
    /\ req = [w \in Workers |-> IdleReq]
    /\ nreq = 0
    /\ faults = 0
    /\ scenario \in Scenarios

SpecConc == InitConc /\ [][NextConc]_vars

(* ------------------------------------------------------------ properties *)

StoreKinds == {"branchStore", "attendanceStore"}

Finished(w, kinds) == req[w].kind \in kinds /\ req[w].pc = "done"

\* An error of one of the kinds the handlers can meet happened in the cycle.
ErrorOccurred(w) ==
    \/ req[w].logged # {}
    \/ \E b \in Branches : req[w].up[b] \in {"neterr", "malformed"}

ErrorFree(w) == ~ErrorOccurred(w) /\ ~req[w].panicked

\* The request of w was served alone: no request was in flight when it
\* arrived, and none has arrived since.
Undisturbed(w) == req[w].alone /\ req[w].ver = nreq

IsPrefix(s, t) == Len(s) <= Len(t) /\ SubSeq(t, 1, Len(s)) = s

\* What upstream published for branch b in data set v, as the row and the
\* reading a faithful store and read would carry.
UpstreamOccupancyRow(v, b) ==
    [branchId |-> getBranchSQLIds[b],
     lastUpdated |-> OccupancyJSON(v, b).LastUpdated + OffsetHours,
     name |-> OccupancyJSON(v, b).Name,
     status |-> OccupancyJSON(v, b).Status,
     pct |-> OccupancyJSON(v, b).CurrentPercentage]

UpstreamReading(v, b) ==
    [LastUpdated |-> OccupancyJSON(v, b).LastUpdated + OffsetHours,
     Name |-> OccupancyJSON(v, b).Name,
     Status |-> OccupancyJSON(v, b).Status,
     CurrentPercentage |-> OccupancyJSON(v, b).CurrentPercentage]

UpstreamSlots(v, b) ==
    [i \in 1..SlotsPublished |->
        [Hour |-> AttendanceJSON(v, b)[i].hour,
         Percentage |-> AttendanceJSON(v, b)[i].percantage]]

RECURSIVE SlotsOfRows(_)
SlotsOfRows(rows) ==
    IF Len(rows) = 0 THEN <<>>
    ELSE <<ToExpectedAttendance(rows[1])>> \o SlotsOfRows(Tail(rows))

AttendanceOf(b) == SlotsOfRows(RowsOf(expected_attendance, getBranchSQLIds[b]))

\* The cycle of w persisted what upstream published for branch b.
PersistedBy(w, b) ==
    IF req[w].kind = "attendanceStore"
    THEN AttendanceOf(b) = UpstreamSlots(req[w].ver, b)
    ELSE UpstreamOccupancyRow(req[w].ver, b) \in Range(branch_data)

\* C1: in a store cycle, served alone, where exactly one branch's fetch
\* fails with a network error and nothing else fails, the request answers
\* 500, every branch is visited, and the data of the other two branches is
\* persisted.
C1_PartialFailureKeepsOthers ==
    \A w \in Workers : \A b \in Branches :
        ( /\ Finished(w, StoreKinds)
          /\ Undisturbed(w)
          /\ req[w].up[b] = "neterr"
          /\ req[w].logged \subseteq {Logged("fetch", b)}
          /\ \A c \in Branches \ {b} : req[w].up[c] \in {"ok", "none"} )
        => /\ req[w].status = StatusInternalServerError
           /\ Range(req[w].order) = Branches
           /\ \A c \in Branches \ {b} : PersistedBy(w, c)

\* C2: a store request answers 500 exactly when a fetch, decode, delete or
\* insert error occurred in its cycle, and 200 when none did.
C2_StatusReportsErrors ==
    \A w \in Workers :
        Finished(w, StoreKinds)
        => /\ (req[w].status = StatusInternalServerError) <=> ErrorOccurred(w)
           /\ ~ErrorOccurred(w) => req[w].status = StatusOK

\* C3: an iteration that meets a body that is not JSON does not crash, records
\* the failure as an error of the cycle, and leaves the stored rows of that
\* branch as they were.
C3_MalformedLeavesRows ==
    [][\A w \in Workers : \A b \in Branches :
          ( /\ req[w].kind \in StoreKinds
            /\ req[w].up[b] = "none"
            /\ req'[w].kind = req[w].kind
            /\ req'[w].up[b] = "malformed" )
          => /\ ~req'[w].panicked
             /\ \E e \in req'[w].logged : e.branch = b
             /\ RowsOf(branch_data', getBranchSQLIds[b])
                    = RowsOf(branch_data, getBranchSQLIds[b])
             /\ RowsOf(expected_attendance', getBranchSQLIds[b])
                    = RowsOf(expected_attendance, getBranchSQLIds[b])]_vars

\* C4: after an error-free attendance cycle that no other request
\* overlapped, GET /attendance lists for every branch exactly the slots
\* upstream published for that cycle, each once, whatever the table held
\* before.
C4_LatestAttendanceOnly ==
    \A w \in Workers :
        (Finished(w, {"attendanceStore"}) /\ ErrorFree(w) /\ Undisturbed(w))
        => \A b \in Branches :
              /\ GroupExpectedAttendance(expected_attendance, EmptyMap)[b]
                    = UpstreamSlots(req[w].ver, b)
              /\ Len(GroupExpectedAttendance(expected_attendance, EmptyMap)[b])
                    = SlotsPublished

\* An error-free attendance cycle has replaced the rows of an earlier one.
C4_Witness ==
    /\ Finished(1, {"attendanceStore"})
    /\ ErrorFree(1)
    /\ Undisturbed(1)
    /\ req[1].removed.expected_attendance
          = SlotsPublished * Cardinality(Branches)
    /\ req[1].removed.expected_attendance > 0
    /\ Len(expected_attendance) = SlotsPublished * Cardinality(Branches)
    /\ AttendanceOf(westendName) = UpstreamSlots(req[1].ver, westendName)

RECURSIVE ReadingsOfRows(_)
ReadingsOfRows(rows) ==
    IF Len(rows) = 0 THEN <<>>
    ELSE <<ToBranchData(rows[1])>> \o ReadingsOfRows(Tail(rows))

ReadingsOf(b) == ReadingsOfRows(RowsOf(branch_data, getBranchSQLIds[b]))

\* GET /branches lists under each name the readings stored with that
\* branch's storage id, in insertion order; and after an error-free occupancy
\* cycle that no other request overlapped, the last rows of the table are
\* the cycle's, one per branch in the order the branches were visited, and
\* each reading is listed last under its branch and under no other.
ReadingsListedPerBranch ==
    LET body == GroupBranchData(branch_data, EmptyMap)
    IN /\ \A b \in Branches : body[b] = ReadingsOf(b)
       /\ \A w \in Workers :
             (Finished(w, {"branchStore"}) /\ ErrorFree(w) /\ Undisturbed(w))
             => LET n == Len(branch_data)
                    k == Cardinality(Branches)
                IN /\ n >= k
                   /\ \A i \in 1..k :
                         branch_data[n - k + i]
                             = UpstreamOccupancyRow(req[w].ver, req[w].order[i])
                   /\ \A i \in 1..(n - k) :
                         \A b \in Branches :
                             branch_data[i] # UpstreamOccupancyRow(req[w].ver, b)
                   /\ \A b \in Branches :
                         /\ body[b][Len(body[b])] = UpstreamReading(req[w].ver, b)
                         /\ \A c \in Branches \ {b} :
                               UpstreamReading(req[w].ver, b) \notin Range(body[c])

\* C5: an iteration of an occupancy cycle that meets no error adds exactly
\* one row, tagged with the storage id of its branch and carrying upstream's
\* status and percentage; GET /branches lists under each name the readings
\* stored for that branch, in insertion order, and after a cycle served
\* alone lists the cycle's reading last under its branch and under no other.
C5_OccupancyStoredPerBranch ==
    [][/\ \A w \in Workers : \A b \in Branches :
             ( /\ req[w].kind = "branchStore"
               /\ req[w].pc = "loop"
               /\ req[w].up[b] = "none"
               /\ req'[w].up[b] = "ok"
               /\ req'[w].logged = req[w].logged )
             => branch_data'
                   = Append(branch_data, UpstreamOccupancyRow(req[w].ver, b))
       /\ ReadingsListedPerBranch']_vars

\* A second error-free occupancy cycle has added its rows after the first's.
C5_Witness ==
    /\ Finished(1, {"branchStore"})
    /\ ErrorFree(1)
    /\ Undisturbed(1)
    /\ Len(branch_data) = 2 * Cardinality(Branches)
    /\ Len(GroupBranchData(branch_data, EmptyMap)[westendName]) = 2
    /\ GroupBranchData(branch_data, EmptyMap)[westendName][2].Status
          = OccupancyJSON(req[1].ver, westendName).Status

\* C6: stored occupancy readings are append-only: no step of any request,
\* an attendance cycle included, removes or alters a stored occupancy row;
\* every step leaves branch_data as it was or appends to it.
C6_OccupancyAppendOnly ==
    [][IsPrefix(branch_data, branch_data')]_vars

\* C7: the registry holds exactly westend, milton and newstead; the two
\* name-keyed maps have that key set, the storage ids are pairwise distinct
\* and the id-keyed map is the inverse of the storage-id map.  Every stored
\* row carries a registered storage id and every loop visits registry keys
\* only, each at most once and all of them before it responds.
C7_RegistryConsistent ==
    /\ DOMAIN getBranchIds = {westendName, miltonName, newsteadName}
    /\ DOMAIN getBranchSQLIds = DOMAIN getBranchIds
    /\ \A a, b \in DOMAIN getBranchSQLIds :
          getBranchSQLIds[a] = getBranchSQLIds[b] => a = b
    /\ DOMAIN getBranchSQLNames = {getBranchSQLIds[b] : b \in DOMAIN getBranchSQLIds}
    /\ \A b \in DOMAIN getBranchSQLIds : getBranchSQLNames[getBranchSQLIds[b]] = b
    /\ \A i \in DOMAIN getBranchSQLNames : getBranchSQLIds[getBranchSQLNames[i]] = i
    /\ \A i \in DOMAIN branch_data :
          branch_data[i].branchId \in DOMAIN getBranchSQLNames
    /\ \A i \in DOMAIN expected_attendance :
          expected_attendance[i].branchId \in DOMAIN getBranchSQLNames
    /\ \A w \in Workers :
          /\ Range(req[w].order) \subseteq DOMAIN getBranchIds
          /\ \A i, j \in DOMAIN req[w].order :
                req[w].order[i] = req[w].order[j] => i = j
          /\ req[w].pc = "respond" => Range(req[w].order) = DOMAIN getBranchIds

\* GET /branches has mapped stored rows of all three storage ids to names.
C7_Witness ==
    /\ Finished(1, {"getBranchData"})
    /\ req[1].status = StatusOK
    /\ \A b \in Branches :
          /\ Len(req[1].body[b]) = 1
          /\ req[1].body[b][1].Name = b

\* C8: an occupancy cycle, served alone, whose fetch for a branch fails, with a network
\* error or with a body that is not JSON, logs the failure, performs the
\* insert for that branch with a zero-valued reading and goes on to the
\* remaining branches.
C8_FailedFetchStoresZeroReading ==
    \A w \in Workers : \A b \in Branches :
        ( /\ Finished(w, {"branchStore"})
          /\ Undisturbed(w)
          /\ req[w].up[b] \in {"neterr", "malformed"} )
        => /\ ~req[w].panicked
           /\ Range(req[w].order) = Branches
           /\ \E e \in req[w].logged : e.branch = b
           /\ \E i \in DOMAIN branch_data :
                 /\ branch_data[i].branchId = getBranchSQLIds[b]
                 /\ branch_data[i].name = ""
                 /\ branch_data[i].status = ""
                 /\ branch_data[i].pct = 0

\* C9: in the in-memory variant an error-free occupancy cycle appends the
\* reading of every branch to App.data, so GET /branches then lists it last
\* under that branch.
C9_MemoryAccumulates ==
    \A w \in Workers :
        (Finished(w, {"memBranchStore"}) /\ ErrorFree(w))
        => \A b \in Branches :
              /\ Len(data[b]) >= 1
              /\ data[b][Len(data[b])].Status = OccupancyJSON(req[w].ver, b).Status

BothFinished ==
    \A w \in Workers : Finished(w, {"attendanceStore"}) /\ ErrorFree(w)

\* C10: when two concurrent error-free attendance cycles have both answered,
\* both answered 200 and every branch holds at least as many rows as one
\* cycle inserts for it and at most the rows of both; nothing keeps the rows
\* of the two cycles apart.
C10_ConcurrentCyclesOverlap ==
    BothFinished
    => /\ \A w \in Workers : req[w].status = StatusOK
       /\ \A b \in Branches :
             LET slots == AttendanceOf(b)
                 published ==
                    UNION {Range(UpstreamSlots(req[w].ver, b)) : w \in Workers}
             IN /\ Len(slots) >= SlotsPublished
                /\ Len(slots) <= 2 * SlotsPublished
                /\ Range(slots) \subseteq published

\* Both cycles answered 200 and a branch holds the rows of each.
C10_Witness ==
    /\ BothFinished
    /\ \A w \in Workers : req[w].status = StatusOK
    /\ \E b \in Branches :
          LET slots == AttendanceOf(b)
          IN /\ Len(slots) > SlotsPublished
             /\ \A w \in Workers :
                   Range(UpstreamSlots(req[w].ver, b)) \subseteq Range(slots)

ReadKinds == {"getBranchData", "getExpectedAttendance"}

\* C11: every finished GET /branches or GET /attendance request of the
\* persisted variant has written exactly one response: a failing row scan
\* is not followed by further 500s or by the final 200 body.
C11_ReadersWriteOneResponse ==
    \A w \in Workers :
        Finished(w, ReadKinds) => Len(req[w].writes) = 1

====
